---- MODULE Spec2Model ----
(***************************************************************************)
(* A model of sandbox.py: a Tk control panel (main thread) that edits a    *)
(* dictionary of shared settings, and a GLFW/OpenGL render thread that     *)
(* reads them every frame, evaluates four user expressions of the elapsed  *)
(* time t, builds a 4x4 matrix from them and draws a grid and an arrow.    *)
(*                                                                         *)
(* Numbers.  Python floats are modelled at resolution 1: a number of the   *)
(* model is an integer, and an operation whose real result is not an       *)
(* integer (a division, cos, sin, sqrt, pi) returns the nearest integer.   *)
(* Expression strings are modelled by their token sequences.               *)
(***************************************************************************)
EXTENDS Integers, Sequences, FiniteSets, TLC

\* ------------------------------------------------------------- bounds
\* The clock runs over 0..MaxTime ticks.
MaxTime == 1
\* The number of edits of an expression, a scale or a visibility flag the
\* control panel makes.
MaxEdits == 1
\* The vertex coordinates and matrix entries of the pipeline check lie in
\* -MaxCoord..MaxCoord.
MaxCoord == 1
\* make_grid is applied to the half extents 0..MaxHalfExtent and to the one
\* the render loop uses.
MaxHalfExtent == 2

\* ------------------------------------------------- the Python evaluator
\* Values of the evaluated language.  ty is one of "num", "str", "none",
\* "module" (math), "builtin" (a function of the math module), "dict" (the
\* empty __builtins__), "obj" (an object reached from the math module: its
\* kind is s, and n the depth of a frame), "method" (a bound method or
\* function of such an object) and "exc" for a raised exception, whose class
\* is s.
Num(n) == [ty |-> "num", n |-> n, s |-> ""]
Str(lit) == [ty |-> "str", n |-> 0, s |-> lit]
None == [ty |-> "none", n |-> 0, s |-> ""]
Module(name) == [ty |-> "module", n |-> 0, s |-> name]
Builtin(name) == [ty |-> "builtin", n |-> 0, s |-> name]
Dict == [ty |-> "dict", n |-> 0, s |-> ""]
Obj(kind, d) == [ty |-> "obj", n |-> d, s |-> kind]
Method(name, d) == [ty |-> "method", n |-> d, s |-> name]
Exc(class) == [ty |-> "exc", n |-> 0, s |-> class]
IsExc(v) == v.ty = "exc"

\* Token classes of the lexer.
NumLit == [k \in {"0", "1", "2", "3"} |->
             CASE k = "0" -> 0 [] k = "1" -> 1 [] k = "2" -> 2 [] k = "3" -> 3]
StrLits == {"'os'", "'2'", "'sys'", "'shared'", "'t0'"}
NameToks == {"t", "math", "__builtins__", "__import__", "x",
             "cos", "sin", "sqrt", "pi", "os",
             "__loader__", "__init__", "__globals__", "get", "__setitem__",
             "_getframe", "f_locals"}

Abs(n) == IF n < 0 THEN -n ELSE n

\* The nearest integer to a / b (b # 0), halves rounded up.
RoundDiv(a, b) ==
  LET p == IF b < 0 THEN -a ELSE a
      q == IF b < 0 THEN -b ELSE b
  IN (2 * p + q) \div (2 * q)

\* round(cos n), round(sin n), round(sqrt n) for n in 0..8 radians.
CosTab == <<1, 1, 0, -1, -1, 0, 1, 1, 0>>
SinTab == <<0, 1, 1, 0, -1, -1, 0, 1, 1>>
SqrtTab == <<0, 1, 1, 2, 2, 2, 2, 3, 3>>
MathCos(n) == CosTab[Abs(n) + 1]
MathSin(n) == IF n < 0 THEN -SinTab[Abs(n) + 1] ELSE SinTab[n + 1]
MathPi == 3

\* Attribute lookup on the math module: math.<name>.  Like every module it
\* has a __loader__, the importlib loader object that loaded it.
MathAttr(name) ==
  IF name \in {"cos", "sin", "sqrt"} THEN Builtin(name)
  ELSE IF name = "pi" THEN Num(MathPi)
  ELSE IF name = "__loader__" THEN Obj("loader", 0)
  ELSE Exc("AttributeError")

\* The frames below the expression's own (depth 0): safe_eval (1),
\* render_loop (2) and the three frames of threading that run it.
StackDepth == 5
RenderLoopDepth == 2

\* Attribute lookup on the objects reached through math.__loader__:
\* loader.__init__ is a Python function, whose __globals__ are the globals
\* of importlib's module, with sys among them; sys._getframe(d) is a frame of
\* the calling thread, and frame.f_locals a dict of its local variables.
\* Of the dicts' methods, get and __setitem__ are modelled.
ObjAttr(obj, name) ==
  IF obj.ty = "dict" /\ name \in {"get", "__setitem__"}
    THEN Method("dict." \o name, 0)
  ELSE IF obj.ty = "method"
    THEN IF obj.s = "loader.__init__" /\ name = "__globals__"
         THEN Obj("globals", 0) ELSE Exc("AttributeError")
  ELSE IF obj.ty # "obj" THEN Exc("AttributeError")
  ELSE IF obj.s = "loader" /\ name = "__init__" THEN Method("loader.__init__", 0)
  ELSE IF obj.s = "sys" /\ name = "_getframe" THEN Method("sys._getframe", 0)
  ELSE IF obj.s = "frame" /\ name = "f_locals" THEN Obj("locals", obj.n)
  ELSE IF obj.s \in {"globals", "locals", "shared"} /\ name \in {"get", "__setitem__"}
    THEN Method(obj.s \o "." \o name, obj.n)
  ELSE Exc("AttributeError")

\* A call f(arg) of a function of the math module.
CallBuiltin(f, arg) ==
  IF arg.ty # "num" THEN Exc("TypeError")
  ELSE IF f = "cos" THEN Num(MathCos(arg.n))
  ELSE IF f = "sin" THEN Num(MathSin(arg.n))
  ELSE IF arg.n < 0 THEN Exc("ValueError")
  ELSE Num(SqrtTab[arg.n + 1])

\* A dict key must be hashable: a dict is not.
Hashable(v) ==
  ~(v.ty = "dict" \/ (v.ty = "obj" /\ v.s \in {"globals", "locals", "shared"}))

\* sys._getframe(d): the frame d calls below the caller's; the caller's own
\* for d <= 0; ValueError below the bottom of the stack.  (The expressions
\* checked pass an integer.)
GetFrame(d) ==
  IF d > StackDepth THEN Exc("ValueError")
  ELSE Obj("frame", IF d < 0 THEN 0 ELSE d)

\* A call m(arg) of a method, st being the value of shared["t0"] then.
\* d.get(key) is the value under key, or None: 'sys' in the globals of
\* importlib, 'shared' in the locals of render_loop, 't0' in shared.
CallMethod(m, arg, st) ==
  IF m.s = "sys._getframe"
    THEN IF arg.ty = "num" THEN GetFrame(arg.n) ELSE Exc("TypeError")
  ELSE IF m.s \in {"dict.get", "globals.get", "locals.get", "shared.get"}
    THEN IF ~Hashable(arg) THEN Exc("TypeError")
         ELSE IF m.s = "globals.get" /\ arg = Str("'sys'") THEN Obj("sys", 0)
         ELSE IF m.s = "locals.get" /\ m.n = RenderLoopDepth /\ arg = Str("'shared'")
           THEN Obj("shared", 0)
         ELSE IF m.s = "shared.get" /\ arg = Str("'t0'") THEN Num(st)
         ELSE None
  ELSE Exc("TypeError")

\* A call m(key, val) of a method: d.__setitem__(key, val) returns None.
CallMethod2(m, key, val) ==
  IF m.s \in {"dict.__setitem__", "globals.__setitem__", "locals.__setitem__",
              "shared.__setitem__"}
    THEN IF ~Hashable(key) THEN Exc("TypeError") ELSE None
  ELSE Exc("TypeError")

\* What the call m(key, val) leaves in shared["t0"], which was st:
\* shared.__setitem__('t0', val) stores val.  (The expressions checked store
\* a number; a key other than 't0' adds an entry nothing reads; the locals
\* dict of a frame is a copy, and the __builtins__ dict is made anew for
\* every evaluation.)
StoreMethod2(m, key, val, st) ==
  IF m.ty = "method" /\ m.s = "shared.__setitem__" /\ key = Str("'t0'")
     /\ val.ty = "num"
  THEN val.n ELSE st

\* A variant: the names of the math module are globals as well.
LookupMathNames(name, t) ==
  IF name = "t" THEN Num(t)
  ELSE IF name = "math" THEN Module("math")
  ELSE IF name = "__builtins__" THEN Dict
  ELSE IF name \in {"cos", "sin", "sqrt"} THEN Builtin(name)
  ELSE IF name = "pi" THEN Num(MathPi)
  ELSE Exc("NameError")
\* The globals eval() is given: {"__builtins__": {}, "math": math, "t": t}.
\* A name that is no key of it, and of no builtin since there are none,
\* raises NameError.
Lookup(name, t) ==
  IF name = "t" THEN Num(t)
  ELSE IF name = "math" THEN Module("math")
  ELSE IF name = "__builtins__" THEN Dict
  ELSE Exc("NameError")

\* obj.name
GetAttr(obj, name) ==
  IF IsExc(obj) THEN obj
  ELSE IF obj.ty = "module" THEN MathAttr(name)
  ELSE ObjAttr(obj, name)

\* callee(arg); the callee is evaluated first, then the argument.
Call(callee, arg, st) ==
  IF IsExc(callee) THEN callee
  ELSE IF IsExc(arg) THEN arg
  ELSE IF callee.ty = "builtin" THEN CallBuiltin(callee.s, arg)
  ELSE IF callee.ty = "method" THEN CallMethod(callee, arg, st)
  ELSE Exc("TypeError")

\* callee(): of the callables, only sys._getframe takes no argument.
Call0(callee) ==
  IF IsExc(callee) THEN callee
  ELSE IF callee.ty = "method" /\ callee.s = "sys._getframe" THEN GetFrame(0)
  ELSE Exc("TypeError")

\* callee(a1, a2): the callee, then a1, then a2, then the call.
Call2(callee, a1, a2) ==
  IF IsExc(callee) THEN callee
  ELSE IF IsExc(a1) THEN a1
  ELSE IF IsExc(a2) THEN a2
  ELSE IF callee.ty = "method" THEN CallMethod2(callee, a1, a2)
  ELSE Exc("TypeError")

\* l op r on numbers; the left operand is evaluated first.  Operands that
\* are not numbers are a TypeError (the expressions checked apply no
\* operator to a string).
BinOp(op, l, r) ==
  IF IsExc(l) THEN l
  ELSE IF IsExc(r) THEN r
  ELSE IF l.ty # "num" \/ r.ty # "num" THEN Exc("TypeError")
  ELSE IF op = "+" THEN Num(l.n + r.n)
  ELSE IF op = "-" THEN Num(l.n - r.n)
  ELSE IF op = "*" THEN Num(l.n * r.n)
  ELSE IF r.n = 0 THEN Exc("ZeroDivisionError")
  ELSE Num(RoundDiv(l.n, r.n))

\* -v
Neg(v) ==
  IF IsExc(v) THEN v
  ELSE IF v.ty = "num" THEN Num(-v.n)
  ELSE Exc("TypeError")

\* The expression is evaluated while it is read, from left to right.  env
\* is what a part of it is evaluated in: the time t, the value st that
\* shared["t0"] has by then, and run = FALSE when an exception was raised
\* before, so that this part is not run at all.  The parser's result is the
\* value v of the part read, the position i of the next token, st after it,
\* and ok = FALSE for a syntax error.
Tok(toks, i) == IF i <= Len(toks) THEN toks[i] ELSE "<eof>"
Parsed(v, i, st) == [v |-> v, i |-> i, ok |-> TRUE, st |-> st]
SyntaxErr == [v |-> Exc("SyntaxError"), i |-> 0, ok |-> FALSE, st |-> 0]
Env(t, st, run) == [t |-> t, st |-> st, run |-> run]
\* A part with value v that left st, and the environment of what follows it.
Then(env, v, st) ==
  [v |-> v, env |-> Env(env.t, st, env.run /\ ~IsExc(v))]
\* The one element of a set of one: in Only({F(x) : x \in {e}}) the value of
\* e is computed once, however often F uses it.
Only(S) == CHOOSE x \in S : TRUE

RECURSIVE ParseExpr(_, _, _)
RECURSIVE ParseArithRest(_, _, _, _)
RECURSIVE ParseTerm(_, _, _)
RECURSIVE ParseTermRest(_, _, _, _)
RECURSIVE ParseFactor(_, _, _)
RECURSIVE ParseTrailers(_, _, _, _)

\* atom := NUMBER | STRING | NAME | "(" expr ")"
ParseAtom(toks, i, env) ==
  LET k == Tok(toks, i) IN
  IF k \in DOMAIN NumLit THEN Parsed(Num(NumLit[k]), i + 1, env.st)
  ELSE IF k \in StrLits THEN Parsed(Str(k), i + 1, env.st)
  ELSE IF k \in NameToks THEN Parsed(Lookup(k, env.t), i + 1, env.st)
  ELSE IF k = "("
    THEN Only({IF r.ok /\ Tok(toks, r.i) = ")"
               THEN Parsed(r.v, r.i + 1, r.st) ELSE SyntaxErr :
               r \in {ParseExpr(toks, i + 1, env)}})
  ELSE SyntaxErr

\* The call v(a1, a2), a1 being read already: r is a1 and what it left.
ParseCall2(toks, env, v, r) ==
  Only({Only({IF q.ok /\ Tok(toks, q.i) = ")"
              THEN Only({ParseTrailers(toks, q.i + 1, c.env, c.v) :
                         c \in {Then(env, Call2(v, r.v, q.v),
                                     IF b.env.run /\ ~IsExc(q.v)
                                     THEN StoreMethod2(v, r.v, q.v, q.st)
                                     ELSE q.st)}})
              ELSE SyntaxErr :
              q \in {ParseExpr(toks, r.i + 1, b.env)}}) :
        b \in {Then(env, r.v, r.st)}})

\* trailer := "." NAME | "(" ")" | "(" expr ")" | "(" expr "," expr ")"
\* v is the value the trailers apply to, and env what follows v.
ParseTrailers(toks, i, env, v) ==
  LET k == Tok(toks, i) IN
  IF k = "."
    THEN IF Tok(toks, i + 1) \in NameToks
         THEN Only({ParseTrailers(toks, i + 2, b.env, b.v) :
                    b \in {Then(env, GetAttr(v, Tok(toks, i + 1)), env.st)}})
         ELSE SyntaxErr
  ELSE IF k = "("
    THEN IF Tok(toks, i + 1) = ")"
         THEN Only({ParseTrailers(toks, i + 2, b.env, b.v) :
                    b \in {Then(env, Call0(v), env.st)}})
         ELSE Only({IF r.ok /\ Tok(toks, r.i) = ")"
                    THEN Only({ParseTrailers(toks, r.i + 1, b.env, b.v) :
                               b \in {Then(env, Call(v, r.v, r.st), r.st)}})
                    ELSE IF r.ok /\ Tok(toks, r.i) = ","
                    THEN ParseCall2(toks, env, v, r)
                    ELSE SyntaxErr :
                    r \in {ParseExpr(toks, i + 1, env)}})
  ELSE Parsed(v, i, env.st)

\* primary := atom trailer*
ParsePrimary(toks, i, env) ==
  Only({IF r.ok
        THEN Only({ParseTrailers(toks, r.i, b.env, b.v) :
                   b \in {Then(env, r.v, r.st)}})
        ELSE SyntaxErr :
        r \in {ParseAtom(toks, i, env)}})

\* factor := "-" factor | primary
ParseFactor(toks, i, env) ==
  IF Tok(toks, i) = "-"
  THEN Only({IF r.ok THEN Parsed(Neg(r.v), r.i, r.st) ELSE SyntaxErr :
             r \in {ParseFactor(toks, i + 1, env)}})
  ELSE ParsePrimary(toks, i, env)

\* term := factor (("*" | "/") factor)*
\* l is the value of the term so far, and env what follows it.
ParseTermRest(toks, i, env, l) ==
  LET k == Tok(toks, i) IN
  IF k \in {"*", "/"}
  THEN Only({IF r.ok
             THEN Only({ParseTermRest(toks, r.i, b.env, b.v) :
                        b \in {Then(env, BinOp(k, l, r.v), r.st)}})
             ELSE SyntaxErr :
             r \in {ParseFactor(toks, i + 1, env)}})
  ELSE Parsed(l, i, env.st)

ParseTerm(toks, i, env) ==
  Only({IF r.ok
        THEN Only({ParseTermRest(toks, r.i, b.env, b.v) :
                   b \in {Then(env, r.v, r.st)}})
        ELSE SyntaxErr :
        r \in {ParseFactor(toks, i, env)}})

\* expr := term (("+" | "-") term)*
ParseArithRest(toks, i, env, l) ==
  LET k == Tok(toks, i) IN
  IF k \in {"+", "-"}
  THEN Only({IF r.ok
             THEN Only({ParseArithRest(toks, r.i, b.env, b.v) :
                        b \in {Then(env, BinOp(k, l, r.v), r.st)}})
             ELSE SyntaxErr :
             r \in {ParseTerm(toks, i + 1, env)}})
  ELSE Parsed(l, i, env.st)

ParseExpr(toks, i, env) ==
  Only({IF r.ok
        THEN Only({ParseArithRest(toks, r.i, b.env, b.v) :
                   b \in {Then(env, r.v, r.st)}})
        ELSE SyntaxErr :
        r \in {ParseTerm(toks, i, env)}})

\* eval(expr, {"__builtins__": {}, "math": math, "t": t}) while shared["t0"]
\* is t0: the value v of the expression, or the exception it raises, and
\* what is in shared["t0"] then.  The whole string must be one expression;
\* a string that is none is not run at all.
PyRun(expr, t, t0) ==
  Only({IF r.ok /\ r.i = Len(expr) + 1 THEN [v |-> r.v, st |-> r.st]
        ELSE [v |-> Exc("SyntaxError"), st |-> t0] :
        r \in {ParseExpr(expr, 1, Env(t, t0, TRUE))}})
PyEval(expr, t, t0) == PyRun(expr, t, t0).v

\* float(v): a number, or a string that spells one; anything else raises.
PyFloat(v) ==
  IF IsExc(v) THEN v
  ELSE IF v.ty = "num" THEN v
  ELSE IF v.ty = "str"
    THEN IF v.s = "'2'" THEN Num(2) ELSE Exc("ValueError")
  ELSE Exc("TypeError")

\* A variant: the fallback is 1.0.
safe_eval_Fallback1(expr, t, t0) ==
  LET v == PyFloat(PyEval(expr, t, t0)) IN
  IF IsExc(v) THEN 1 ELSE v.n

\* safe_eval: try: return float(eval(...)) except Exception: return 0.0
safe_eval(expr, t, t0) ==
  LET v == PyFloat(PyEval(expr, t, t0)) IN
  IF IsExc(v) THEN 0 ELSE v.n

\* What is in shared["t0"] when safe_eval(expr) has returned.
safe_eval_t0(expr, t, t0) == PyRun(expr, t, t0).st

\* ------------------------------------------------------ geometry, matrix
\* The four matrix entries.
EntrySet == {"a", "b", "c", "d"}

\* np.array(..., dtype=np.float32) of an integer: the nearest number with a
\* 24 bit significand, halves to the even one.  Float32Ulp is the distance
\* of two float32 numbers around a, a power of two.
TwoTo24 == 16777216
RECURSIVE Float32Ulp(_, _)
Float32Ulp(a, step) ==
  IF a < TwoTo24 * step THEN step ELSE Float32Ulp(a, 2 * step)
Float32(n) ==
  LET a == Abs(n)
      step == Float32Ulp(a, 1)
      q == a \div step
      r == a % step
      up == 2 * r > step \/ (2 * r = step /\ q % 2 = 1)
      m == (IF up THEN q + 1 ELSE q) * step
  IN IF n < 0 THEN -m ELSE m
AsFloat32(list) == [j \in DOMAIN list |-> Float32(list[j])]

\* A variant: range(-n, n), without the last line.
RECURSIVE GridFromOpen(_, _)
GridFromOpen(i, n) ==
  IF i >= n THEN <<>>
  ELSE <<i, -n, i, n>> \o <<-n, i, n, i>> \o GridFromOpen(i + 1, n)

\* make_grid(n): for i in range(-n, n + 1) the floats i,-n,i,n and -n,i,n,i.
RECURSIVE GridFrom(_, _)
GridFrom(i, n) ==
  IF i > n THEN <<>>
  ELSE <<i, -n, i, n>> \o <<-n, i, n, i>> \o GridFrom(i + 1, n)
make_grid(n) == AsFloat32(GridFrom(-n, n))

\* head_len * cos(left), head_len * sin(left) and the same of right: at most
\* 0.3 in size, so 0 at the resolution of the model.
HeadOffset == 0

\* A variant: the wings start at the base.
make_vector_WingsAtBase(x, y) ==
  AsFloat32(<<0, 0, x, y>>
            \o <<0, 0, HeadOffset, HeadOffset>>
            \o <<0, 0, HeadOffset, HeadOffset>>)

\* make_vector(x, y): the base line, the left wing and the right wing, each
\* x1, y1, x2, y2, as float32.
make_vector(x, y) ==
  AsFloat32(<<0, 0, x, y>>
            \o <<x, y, x + HeadOffset, y + HeadOffset>>
            \o <<x, y, x + HeadOffset, y + HeadOffset>>)

\* grid = make_grid(10); vec = make_vector(3, 1); the arrow's draw call
\* names 6 vertices.
GridHalfExtent == 10
VecX == 3
VecY == 1
ArrowVertexCount == 6

\* A variant: b and c exchanged.
BuildMatrixSwapped(a, b, c, d) ==
  << <<a, c, 0, 0>>, <<b, d, 0, 0>>, <<0, 0, 1, 0>>, <<0, 0, 0, 1>> >>

\* M = np.array([[a, b, 0, 0], [c, d, 0, 0], [0, 0, 1, 0], [0, 0, 0, 1]])
BuildMatrix(a, b, c, d) ==
  << <<a, b, 0, 0>>, <<c, d, 0, 0>>, <<0, 0, 1, 0>>, <<0, 0, 0, 1>> >>

\* The 16 floats of a 4x4 numpy array in memory: row after row.
RowMajor(m) == m[1] \o m[2] \o m[3] \o m[4]

\* glUniformMatrix4fv(loc, 1, transpose, m): OpenGL reads the 16 floats as
\* the columns of the uniform unless transpose is set, and then as its rows.
\* The result is the uniform as a matrix, u[row][column].
GL_FALSE == FALSE
UniformMatrix4fv(transpose, m) ==
  LET data == RowMajor(m) IN
  [r \in 1..4 |-> [c \in 1..4 |->
     IF transpose THEN data[4 * (r - 1) + c] ELSE data[4 * (c - 1) + r]]]

\* gl_Position = uTransform * vec4(aPos, 0.0, 1.0)
VertexShader(u, x, y) ==
  LET v == <<x, y, 0, 1>> IN
  [r \in 1..4 |-> u[r][1] * v[1] + u[r][2] * v[2] + u[r][3] * v[3] + u[r][4] * v[4]]

\* ------------------------------------------------------------- the state
VARIABLES
  now,          \* the clock time.time() reads
  cpc,          \* the control task's position in make_controls
  cNow,         \* reset_t: the time it read and has not stored yet
  edits,        \* the edits of an expression or a scale made so far
  expr,         \* shared["a_expr"] .. shared["d_expr"]
  scale,        \* shared["a_scale"] .. shared["d_scale"]
  paused,       \* shared["paused"]
  show_grid,    \* shared["show_grid"]
  show_arrow,   \* shared["show_arrow"]
  t0,           \* shared["t0"]
  rpc,          \* the render task's position in render_loop
  glfwInited,   \* glfw.init() succeeded and glfw.terminate() was not called
  win,          \* the window: "unset", "None" (creation failed) or "window"
  context,      \* the thread has a current OpenGL context
  prog,         \* the program object: "none", "linked" or "link_failed"
  closeEvent,   \* a close click waits in the window system's event queue
  shouldClose,  \* the window's close flag, read by window_should_close
  reported,     \* an uncaught exception of the render thread was printed
  nowR,         \* the value of time.time() in line 106
  t,            \* the local t
  ent,          \* the locals a, b, c, d
  M,            \* the local M
  idled,        \* the iteration that ended last was a paused one
  uTransform,   \* the uniform uTransform of the program
  back,         \* the frame being drawn
  front,        \* the frame on screen
  evExpr, evT, evT0,             \* the evaluator alone: expression, t, t0
  evOut, evT0Out, evPc,          \* its result and the t0 it leaves
  glIn, glU, glPos, glPc,        \* the pipeline alone: input, uniform, result
  geoN, geoX, geoY,              \* the geometry alone: make_grid(n),
  gridOut, vecOut                \* make_vector(x, y) and their results

ctlVars == <<cpc, cNow, edits, expr, scale, paused, show_grid, show_arrow, t0>>
sysVars == <<glfwInited, win, context, prog, closeEvent, shouldClose, reported>>
locVars == <<nowR, t, ent, M, idled>>
gfxVars == <<uTransform, back, front>>
evVars == <<evExpr, evT, evT0, evOut, evT0Out, evPc>>
glVars == <<glIn, glU, glPos, glPc>>
geoVars == <<geoN, geoX, geoY, gridOut, vecOut>>
progVars == <<now, ctlVars, rpc, sysVars, locVars, gfxVars>>
vars == <<progVars, evVars, glVars, geoVars>>

\* The defaults of the four entry fields and sliders.
CosT == <<"math", ".", "cos", "(", "t", ")">>
SinT == <<"math", ".", "sin", "(", "t", ")">>
NegSinT == <<"-", "math", ".", "sin", "(", "t", ")">>
DefaultExpr == [k \in EntrySet |->
  CASE k = "a" -> CosT [] k = "b" -> SinT [] k = "c" -> NegSinT [] k = "d" -> CosT]
DefaultScale == [k \in EntrySet |-> 1]

\* What the operator types into an entry field, and where a slider (from -2
\* to 2) is dragged.
DivZero == <<"1", "/", "0">>
QuotedTwo == <<"'2'">>
\* An expression that walks from the math module to the frame of render_loop
\* and on to its local shared, and that stores 0 under 't0', or reads it.
SysChain ==
  <<"math", ".", "__loader__", ".", "__init__", ".", "__globals__",
    ".", "get", "(", "'sys'", ")">>
SharedChain ==
  SysChain \o <<".", "_getframe", "(", "2", ")",
                ".", "f_locals", ".", "get", "(", "'shared'", ")">>
StoreT0 == SharedChain \o <<".", "__setitem__", "(", "'t0'", ",", "0", ")">>
LoadT0 == SharedChain \o <<".", "get", "(", "'t0'", ")">>
EditExprs == {DivZero, QuotedTwo, StoreT0}
EditScales == {2}
\* The row the operator edits: an entry with entries evaluated before it and
\* after it.
EditRows == {"b"}

\* A frame: for each geometry the uniform it was drawn under and the number
\* of vertices drawn, or NotDrawn.
NotDrawn == [u |-> <<>>, count |-> 0]
EmptyFrame == [grid |-> NotDrawn, arrow |-> NotDrawn]
Unset == <<>>
NoEnt == [k \in EntrySet |-> 0]

ProgInit ==
  /\ now = 0
  /\ cpc = "start" /\ cNow = 0 /\ edits = 0
  /\ expr = [k \in EntrySet |-> <<>>] /\ scale = [k \in EntrySet |-> 0]
  /\ paused = FALSE /\ show_grid = FALSE /\ show_arrow = FALSE /\ t0 = 0
  /\ rpc = "unstarted"
  /\ glfwInited = FALSE /\ win = "unset" /\ context = FALSE /\ prog = "none"
  /\ closeEvent = FALSE /\ shouldClose = FALSE /\ reported = FALSE
  /\ nowR = 0 /\ t = 0 /\ ent = NoEnt /\ M = Unset /\ idled = FALSE
  /\ uTransform = Unset /\ back = EmptyFrame /\ front = EmptyFrame

EvIdle ==
  /\ evExpr = <<>> /\ evT = 0 /\ evT0 = 0
  /\ evOut = 0 /\ evT0Out = 0 /\ evPc = "off"
GlIdle == glIn = <<>> /\ glU = Unset /\ glPos = Unset /\ glPc = "off"

GeoIdle == geoN = 0 /\ geoX = 0 /\ geoY = 0 /\ gridOut = <<>> /\ vecOut = <<>>

Init == ProgInit /\ EvIdle /\ GlIdle /\ GeoIdle

\* ------------------------------------------------------------- the clock
Tick ==
  /\ now < MaxTime
  /\ now' = now + 1
  /\ UNCHANGED <<ctlVars, rpc, sysVars, locVars, gfxVars, evVars, glVars, geoVars>>

\* ----------------------------------------------------- the control task
\* shared = {...}: the twelve fields with their defaults; t0 is time.time().
MakeShared ==
  /\ cpc = "start"
  /\ cpc' = "shared"
  /\ expr' = DefaultExpr /\ scale' = DefaultScale
  /\ paused' = FALSE /\ show_grid' = TRUE /\ show_arrow' = TRUE
  /\ t0' = now
  /\ UNCHANGED <<now, cNow, edits, rpc, sysVars, locVars, gfxVars, evVars, glVars, geoVars>>

\* add_row for a, b, c, d; the three check buttons and the Reset button.
BuildWidgets ==
  /\ cpc = "shared"
  /\ cpc' = "widgets"
  /\ UNCHANGED <<now, cNow, edits, expr, scale, paused, show_grid, show_arrow,
                 t0, rpc, sysVars, locVars, gfxVars, evVars, glVars, geoVars>>

\* threading.Thread(target=render_loop, args=(shared,), daemon=True).start()
StartThread ==
  /\ cpc = "widgets"
  /\ cpc' = "spawned"
  /\ rpc' = "sleep"
  /\ UNCHANGED <<now, cNow, edits, expr, scale, paused, show_grid, show_arrow,
                 t0, sysVars, locVars, gfxVars, evVars, glVars, geoVars>>

\* root.mainloop(): from here on the panel handles the operator's events.
EnterMainloop ==
  /\ cpc = "spawned"
  /\ cpc' = "mainloop"
  /\ UNCHANGED <<now, cNow, edits, expr, scale, paused, show_grid, show_arrow,
                 t0, rpc, sysVars, locVars, gfxVars, evVars, glVars, geoVars>>

\* The operator types into the Entry of row k.
SetExpr(k, e) ==
  /\ cpc = "mainloop" /\ edits < MaxEdits
  /\ e # expr[k]
  /\ expr' = [expr EXCEPT ![k] = e]
  /\ edits' = edits + 1
  /\ UNCHANGED <<now, cpc, cNow, scale, paused, show_grid, show_arrow, t0,
                 rpc, sysVars, locVars, gfxVars, evVars, glVars, geoVars>>

\* The operator drags the Scale of row k.
SetScale(k, v) ==
  /\ cpc = "mainloop" /\ edits < MaxEdits
  /\ v # scale[k]
  /\ scale' = [scale EXCEPT ![k] = v]
  /\ edits' = edits + 1
  /\ UNCHANGED <<now, cpc, cNow, expr, paused, show_grid, show_arrow, t0,
                 rpc, sysVars, locVars, gfxVars, evVars, glVars, geoVars>>

\* The three Checkbuttons.
TogglePaused ==
  /\ cpc = "mainloop"
  /\ paused' = ~paused
  /\ UNCHANGED <<now, cpc, cNow, edits, expr, scale, show_grid, show_arrow, t0,
                 rpc, sysVars, locVars, gfxVars, evVars, glVars, geoVars>>

ToggleGrid ==
  /\ cpc = "mainloop" /\ edits < MaxEdits
  /\ edits' = edits + 1
  /\ show_grid' = ~show_grid
  /\ UNCHANGED <<now, cpc, cNow, expr, scale, paused, show_arrow, t0,
                 rpc, sysVars, locVars, gfxVars, evVars, glVars, geoVars>>

ToggleArrow ==
  /\ cpc = "mainloop" /\ edits < MaxEdits
  /\ edits' = edits + 1
  /\ show_arrow' = ~show_arrow
  /\ UNCHANGED <<now, cpc, cNow, expr, scale, paused, show_grid, t0,
                 rpc, sysVars, locVars, gfxVars, evVars, glVars, geoVars>>

\* reset_t, shared["t0"] = time.time(): the clock is read, then t0 stored.
ResetRead ==
  /\ cpc = "mainloop"
  /\ cpc' = "reset_store"
  /\ cNow' = now
  /\ UNCHANGED <<now, edits, expr, scale, paused, show_grid, show_arrow, t0,
                 rpc, sysVars, locVars, gfxVars, evVars, glVars, geoVars>>

ResetStore ==
  /\ cpc = "reset_store"
  /\ cpc' = "mainloop"
  /\ t0' = cNow
  /\ cNow' = 0
  /\ UNCHANGED <<now, edits, expr, scale, paused, show_grid, show_arrow,
                 rpc, sysVars, locVars, gfxVars, evVars, glVars, geoVars>>

Control ==
  \/ MakeShared
  \/ BuildWidgets
  \/ StartThread
  \/ EnterMainloop
  \/ \E k \in EditRows, e \in EditExprs : SetExpr(k, e)
  \/ \E k \in EditRows, v \in EditScales : SetScale(k, v)
  \/ TogglePaused
  \/ ToggleGrid
  \/ ToggleArrow
  \/ ResetRead
  \/ ResetStore

\* The operator clicks the close button of the render window.
UserClose ==
  /\ win = "window" /\ glfwInited
  /\ ~closeEvent /\ ~shouldClose
  /\ closeEvent' = TRUE
  /\ UNCHANGED <<now, ctlVars, rpc, glfwInited, win, context, prog, shouldClose,
                 reported, locVars, gfxVars, evVars, glVars, geoVars>>

\* ------------------------------------------------------ the render task
\* time.sleep(0.5) returns.  Nothing orders its return against the steps of
\* the main thread, which take as long as the scheduler lets them.
StartupSleep ==
  /\ rpc = "sleep"
  /\ rpc' = "glfw_init"
  /\ UNCHANGED <<now, ctlVars, sysVars, locVars, gfxVars, evVars, glVars, geoVars>>

\* if not glfw.init(): raise Exception("GLFW init failed")
GlfwInit ==
  /\ rpc = "glfw_init"
  /\ \/ glfwInited' = TRUE /\ rpc' = "create_window"
     \/ glfwInited' = FALSE /\ rpc' = "raised"
  /\ UNCHANGED <<now, ctlVars, win, context, prog, closeEvent, shouldClose,
                 reported, locVars, gfxVars, evVars, glVars, geoVars>>

\* win = glfw.create_window(...): the window, or None; win is not tested.
CreateWindow ==
  /\ rpc = "create_window"
  /\ win' \in {"window", "None"}
  /\ rpc' = "make_context"
  /\ UNCHANGED <<now, ctlVars, glfwInited, context, prog, closeEvent,
                 shouldClose, reported, locVars, gfxVars, evVars, glVars, geoVars>>

\* glfw.make_context_current(win): with None no context is current.
MakeContextCurrent ==
  /\ rpc = "make_context"
  /\ context' = (win = "window")
  /\ rpc' = "compile_vs"
  /\ UNCHANGED <<now, ctlVars, glfwInited, win, prog, closeEvent, shouldClose,
                 reported, locVars, gfxVars, evVars, glVars, geoVars>>

\* compile_shader: raise RuntimeError unless GL_COMPILE_STATUS.  Without a
\* current context the OpenGL binding raises from glCreateShader.
CompileShader(at, next) ==
  /\ rpc = at
  /\ \/ context /\ rpc' = next
     \/ rpc' = "raised"
  /\ UNCHANGED <<now, ctlVars, sysVars, locVars, gfxVars, evVars, glVars, geoVars>>

\* make_program after the two compile_shader calls: attach, glLinkProgram,
\* delete the shaders, return p.  GL_LINK_STATUS is not read.
LinkProgram ==
  /\ rpc = "link"
  /\ prog' \in {"linked", "link_failed"}
  /\ rpc' = "use_program"
  /\ UNCHANGED <<now, ctlVars, glfwInited, win, context, closeEvent, shouldClose,
                 reported, locVars, gfxVars, evVars, glVars, geoVars>>

\* glUseProgram(prog): GL_INVALID_OPERATION for a program that did not
\* link, which the OpenGL binding's error check raises as GLError.
UseProgram ==
  /\ rpc = "use_program"
  /\ rpc' = IF prog = "linked" THEN "buffers" ELSE "raised"
  /\ UNCHANGED <<now, ctlVars, sysVars, locVars, gfxVars, evVars, glVars, geoVars>>

\* grid, vec, the two vertex buffers, the uniform locations, glClearColor.
MakeBuffers ==
  /\ rpc = "buffers"
  /\ rpc' = "loop_test"
  /\ UNCHANGED <<now, ctlVars, sysVars, locVars, gfxVars, evVars, glVars, geoVars>>

\* An exception that leaves render_loop ends the thread; threading prints
\* the traceback.  The main thread is not affected.
ThreadDies ==
  /\ rpc = "raised"
  /\ reported' = TRUE
  /\ rpc' = "dead"
  /\ UNCHANGED <<now, ctlVars, glfwInited, win, context, prog, closeEvent,
                 shouldClose, locVars, gfxVars, evVars, glVars, geoVars>>

\* while not glfw.window_should_close(win):
LoopTest ==
  /\ rpc = "loop_test"
  /\ rpc' = IF shouldClose THEN "terminate" ELSE "poll"
  /\ UNCHANGED <<now, ctlVars, sysVars, locVars, gfxVars, evVars, glVars, geoVars>>

\* glfw.poll_events(): a queued close click sets the window's close flag.
PollEvents ==
  /\ rpc = "poll"
  /\ shouldClose' = (shouldClose \/ closeEvent)
  /\ closeEvent' = FALSE
  /\ rpc' = "read_paused"
  /\ UNCHANGED <<now, ctlVars, glfwInited, win, context, prog, reported,
                 locVars, gfxVars, evVars, glVars, geoVars>>

\* A variant: paused is not tested.
ReadPausedIgnored ==
  /\ rpc = "read_paused"
  /\ rpc' = "sample_now"
  /\ UNCHANGED <<now, ctlVars, sysVars, locVars, gfxVars, evVars, glVars, geoVars>>

\* if shared["paused"].get():
ReadPaused ==
  /\ rpc = "read_paused"
  /\ rpc' = IF paused THEN "idle" ELSE "sample_now"
  /\ UNCHANGED <<now, ctlVars, sysVars, locVars, gfxVars, evVars, glVars, geoVars>>

\* A variant: break instead of continue.
IdleBreak ==
  /\ rpc = "idle"
  /\ rpc' = "terminate"
  /\ UNCHANGED <<now, ctlVars, sysVars, locVars, gfxVars, evVars, glVars, geoVars>>

\* time.sleep(0.01); continue
IdleWait ==
  /\ rpc = "idle"
  /\ rpc' = "loop_test"
  /\ idled' = TRUE
  /\ UNCHANGED <<now, ctlVars, sysVars, nowR, t, ent, M, gfxVars, evVars, glVars,
                 geoVars>>

\* t = time.time() - shared["t0"]: the clock is read first, then t0.
SampleNow ==
  /\ rpc = "sample_now"
  /\ nowR' = now
  /\ rpc' = "read_t0"
  /\ UNCHANGED <<now, ctlVars, sysVars, t, ent, M, idled, gfxVars, evVars, glVars, geoVars>>

\* A variant: the first frame after a paused iteration does not take its
\* time from the clock.
ReadT0Resumed ==
  /\ rpc = "read_t0"
  /\ t' = IF idled THEN t ELSE nowR - t0
  /\ rpc' = "eval_a"
  /\ UNCHANGED <<now, ctlVars, sysVars, nowR, ent, M, idled, gfxVars, evVars, glVars, geoVars>>

\* ... - shared["t0"]: t0 is read and t assigned.
ReadT0 ==
  /\ rpc = "read_t0"
  /\ t' = nowR - t0
  /\ rpc' = "eval_a"
  /\ UNCHANGED <<now, ctlVars, sysVars, nowR, ent, M, idled, gfxVars, evVars, glVars, geoVars>>

\* The positions of the four assignments a = ..., b = ..., c = ..., d = ...
EvalPc(k) == CASE k = "a" -> "eval_a" [] k = "b" -> "eval_b"
               [] k = "c" -> "eval_c" [] k = "d" -> "eval_d"
AfterEval(k) == CASE k = "a" -> "eval_b" [] k = "b" -> "eval_c"
                  [] k = "c" -> "eval_d" [] k = "d" -> "build"
\* A variant: every entry takes the time anew.
EvalEntryResample(k) ==
  /\ rpc = EvalPc(k)
  /\ ent' = [ent EXCEPT ![k] = safe_eval(expr[k], now - t0, t0) * scale[k]]
  /\ t0' = safe_eval_t0(expr[k], now - t0, t0)
  /\ rpc' = AfterEval(k)
  /\ UNCHANGED <<now, cpc, cNow, edits, expr, scale, paused, show_grid,
                 show_arrow, sysVars, nowR, t, M, idled, gfxVars, evVars, glVars,
                 geoVars>>

\* A variant: the expression and the scale read at startup are kept.
EvalEntryCached(k) ==
  /\ rpc = EvalPc(k)
  /\ ent' = [ent EXCEPT ![k] = safe_eval(DefaultExpr[k], t, t0) * DefaultScale[k]]
  /\ t0' = safe_eval_t0(DefaultExpr[k], t, t0)
  /\ rpc' = AfterEval(k)
  /\ UNCHANGED <<now, cpc, cNow, edits, expr, scale, paused, show_grid,
                 show_arrow, sysVars, nowR, t, M, idled, gfxVars, evVars, glVars,
                 geoVars>>

\* k = safe_eval(shared["k_expr"].get()) * shared["k_scale"].get()
EvalEntry(k) ==
  /\ rpc = EvalPc(k)
  /\ ent' = [ent EXCEPT ![k] = safe_eval(expr[k], t, t0) * scale[k]]
  /\ t0' = safe_eval_t0(expr[k], t, t0)
  /\ rpc' = AfterEval(k)
  /\ UNCHANGED <<now, cpc, cNow, edits, expr, scale, paused, show_grid,
                 show_arrow, sysVars, nowR, t, M, idled, gfxVars, evVars, glVars,
                 geoVars>>

\* M = np.array([[a, b, 0, 0], [c, d, 0, 0], [0, 0, 1, 0], [0, 0, 0, 1]])
BuildM ==
  /\ rpc = "build"
  /\ M' = BuildMatrix(ent["a"], ent["b"], ent["c"], ent["d"])
  /\ rpc' = "clear"
  /\ UNCHANGED <<now, ctlVars, sysVars, nowR, t, ent, idled, gfxVars, evVars, glVars, geoVars>>

\* glClear(GL_COLOR_BUFFER_BIT)
Clear ==
  /\ rpc = "clear"
  /\ back' = EmptyFrame
  /\ rpc' = "upload"
  /\ UNCHANGED <<now, ctlVars, sysVars, locVars, uTransform, front, evVars, glVars, geoVars>>

\* glUniformMatrix4fv(trans_loc, 1, GL_FALSE, M)
Upload ==
  /\ rpc = "upload"
  /\ uTransform' = UniformMatrix4fv(GL_FALSE, M)
  /\ rpc' = "grid"
  /\ UNCHANGED <<now, ctlVars, sysVars, locVars, back, front, evVars, glVars, geoVars>>

\* A variant: the grid is drawn whatever show_grid is.
DrawGridAlways ==
  /\ rpc = "grid"
  /\ back' = [back EXCEPT !.grid =
                [u |-> uTransform,
                 count |-> Len(make_grid(GridHalfExtent)) \div 2]]
  /\ rpc' = "arrow"
  /\ UNCHANGED <<now, ctlVars, sysVars, locVars, uTransform, front, evVars, glVars, geoVars>>

\* if shared["show_grid"].get(): ... glDrawArrays(GL_LINES, 0, len(grid)//2)
DrawGrid ==
  /\ rpc = "grid"
  /\ back' = IF show_grid
             THEN [back EXCEPT !.grid =
                    [u |-> uTransform,
                     count |-> Len(make_grid(GridHalfExtent)) \div 2]]
             ELSE back
  /\ rpc' = "arrow"
  /\ UNCHANGED <<now, ctlVars, sysVars, locVars, uTransform, front, evVars, glVars, geoVars>>

\* if shared["show_arrow"].get(): ... glDrawArrays(GL_LINES, 0, 6)
DrawArrow ==
  /\ rpc = "arrow"
  /\ back' = IF show_arrow
             THEN [back EXCEPT !.arrow =
                    [u |-> uTransform, count |-> ArrowVertexCount]]
             ELSE back
  /\ rpc' = "swap"
  /\ UNCHANGED <<now, ctlVars, sysVars, locVars, uTransform, front, evVars, glVars, geoVars>>

\* glfw.swap_buffers(win): the frame drawn goes on screen.  This ends the
\* iteration: the locals nowR, t, a, b, c, d and M are not read again before
\* the next iteration assigns them, and the model forgets them here.
SwapBuffers ==
  /\ rpc = "swap"
  /\ front' = back
  /\ rpc' = "loop_test"
  /\ nowR' = 0 /\ t' = 0 /\ ent' = NoEnt /\ M' = Unset /\ idled' = FALSE
  /\ UNCHANGED <<now, ctlVars, sysVars, back, uTransform, evVars, glVars, geoVars>>

\* glfw.terminate(): the window and the context are destroyed.
Terminate ==
  /\ rpc = "terminate"
  /\ glfwInited' = FALSE /\ win' = "destroyed" /\ context' = FALSE
  /\ rpc' = "Terminated"
  /\ UNCHANGED <<now, ctlVars, prog, closeEvent, shouldClose, reported,
                 locVars, gfxVars, evVars, glVars, geoVars>>

Render ==
  \/ StartupSleep
  \/ GlfwInit
  \/ CreateWindow
  \/ MakeContextCurrent
  \/ CompileShader("compile_vs", "compile_fs")
  \/ CompileShader("compile_fs", "link")
  \/ LinkProgram
  \/ UseProgram
  \/ MakeBuffers
  \/ ThreadDies
  \/ LoopTest
  \/ PollEvents
  \/ ReadPaused
  \/ IdleWait
  \/ SampleNow
  \/ ReadT0
  \/ \E k \in EntrySet : EvalEntry(k)
  \/ BuildM
  \/ Clear
  \/ Upload
  \/ DrawGrid
  \/ DrawArrow
  \/ SwapBuffers
  \/ Terminate

Next == Tick \/ Control \/ UserClose \/ Render

Spec == Init /\ [][Next]_vars

\* ------------------------------------------------- the evaluator alone
\* The expressions safe_eval is applied to: the defaults, the spellings the
\* specification gives, and one expression for each way of failing.
EvSamples == {
  CosT, SinT, NegSinT, DivZero, QuotedTwo,
  <<"t">>,
  <<>>,
  <<"cos", "(", "t", ")">>,
  <<"sin", "(", "t", ")">>,
  <<"pi">>,
  <<"x">>,
  <<"t", "+", "x">>,
  <<"__import__", "(", "'os'", ")">>,
  <<"__builtins__">>,
  <<"math">>,
  <<"math", ".", "cos">>,
  <<"math", ".", "cos", "(", ")">>,
  <<"math", ".", "x">>,
  <<"math", ".", "pi">>,
  <<"math", ".", "sqrt", "(", "t", ")">>,
  <<"t", ".", "x">>,
  <<"t", "(", "1", ")">>,
  <<"'os'">>,
  <<"1", "+">>,
  <<"(", "t">>,
  <<"t", "t">>,
  <<"t", "/", "t">>,
  <<"2", "*", "t", "+", "1">>,
  <<"-", "(", "t", "-", "3", ")", "/", "2">>,
  SharedChain, StoreT0, LoadT0,
  LoadT0 \o <<"+", "1">>,
  <<"1", "/", "0", "+">> \o StoreT0,
  StoreT0 \o <<"+", "1", "/", "0">>,
  <<"(">> \o StoreT0,
  <<"math", ".", "cos", "(">> \o StoreT0 \o <<")">>,
  <<"math", ".", "__loader__", ".", "__init__", "(", ")">>,
  <<"math", ".", "__loader__", ".", "__init__", ".", "__globals__",
    ".", "get", "(", "'sys'", ")", ".", "_getframe", "(", "1", ")",
    ".", "f_locals", ".", "get", "(", "'shared'", ")",
    ".", "__setitem__", "(", "'t0'", ",", "0", ")">>,
  <<"__builtins__", ".", "__setitem__", "(", "'t0'", ",", "0", ")">>,
  <<"__builtins__", ".", "get", "(", "'os'", ")">>,
  <<"t", ".", "get">>,
  StoreT0 \o <<"+">> \o SharedChain \o <<".", "__setitem__", "(", "'t0'", ",", "1", ")">>,
  SharedChain \o <<".", "__setitem__", "(", "'t0'", ",">> \o LoadT0 \o <<"+", "1", ")">>,
  SharedChain \o <<".", "__setitem__", "(", "'t0'", ",", "2", ")", "+">>
    \o SysChain \o <<".", "_getframe", "(">> \o LoadT0 \o <<")",
    ".", "f_locals", ".", "get", "(", "'shared'", ")",
    ".", "__setitem__", "(", "'t0'", ",", "3", ")">>,
  SharedChain \o <<".", "__setitem__", "(">> \o StoreT0 \o <<",">> \o LoadT0 \o <<")">>,
  SharedChain \o <<".", "get", "(">> \o StoreT0 \o <<")">>,
  SharedChain \o <<".", "__setitem__", "(", "1", "/", "0", ",">> \o StoreT0 \o <<")">>,
  SharedChain \o <<".", "x", ".", "__setitem__", "(", "'t0'", ",", "0", ")">>,
  SysChain \o <<".", "_getframe", "(", ")", ".", "f_locals", ".", "get", "(", "'t0'", ")">>
}
EvTimes == (0 - MaxTime - 1) .. (MaxTime + 1)
EvOrigins == 0 .. MaxTime

EvInit ==
  /\ ProgInit /\ GlIdle /\ GeoIdle
  /\ evExpr \in EvSamples /\ evT \in EvTimes /\ evT0 \in EvOrigins
  /\ evOut = 0 /\ evT0Out = evT0 /\ evPc = "in"

\* safe_eval(expr) with env["t"] = t, while shared["t0"] is t0
EvApply ==
  /\ evPc = "in"
  /\ evOut' = safe_eval(evExpr, evT, evT0)
  /\ evT0Out' = safe_eval_t0(evExpr, evT, evT0)
  /\ evPc' = "out"
  /\ UNCHANGED <<evExpr, evT, evT0, progVars, glVars, geoVars>>

SpecEval == EvInit /\ [][EvApply]_vars

\* -------------------------------------------------- the pipeline alone
Coords == (0 - MaxCoord) .. MaxCoord

GlInit ==
  /\ ProgInit /\ EvIdle /\ GeoIdle
  /\ glIn \in [a : Coords, b : Coords, c : Coords, d : Coords,
               x : Coords, y : Coords]
  /\ glU = Unset /\ glPos = Unset /\ glPc = "in"

\* M is built from a, b, c, d and handed to glUniformMatrix4fv.
GlUpload ==
  /\ glPc = "in"
  /\ glU' = UniformMatrix4fv(GL_FALSE,
              BuildMatrix(glIn.a, glIn.b, glIn.c, glIn.d))
  /\ glPc' = "uploaded"
  /\ UNCHANGED <<glIn, glPos, progVars, evVars, geoVars>>

\* The vertex stage runs on the vertex (x, y) of a drawn buffer.
GlVertex ==
  /\ glPc = "uploaded"
  /\ glPos' = VertexShader(glU, glIn.x, glIn.y)
  /\ glPc' = "drawn"
  /\ UNCHANGED <<glIn, glU, progVars, evVars, geoVars>>

SpecGL == GlInit /\ [][GlUpload \/ GlVertex]_vars

\* -------------------------------------------------- the geometry alone
\* The half extents make_grid is applied to, and the coordinates of the
\* vectors: small ones, those of the render loop, and integers next to 2^24.
GridSizes == (0 .. MaxHalfExtent) \cup {GridHalfExtent}
VecCoords == {-1, 0, VecX, VecY, TwoTo24 + 1, 0 - TwoTo24 - 3}

GeoInit ==
  /\ ProgInit /\ EvIdle /\ GlIdle
  /\ geoN \in GridSizes /\ geoX \in VecCoords /\ geoY \in VecCoords
  /\ gridOut = <<>> /\ vecOut = <<>>

\* grid = make_grid(n)
GeoGrid ==
  /\ gridOut = <<>>
  /\ gridOut' = make_grid(geoN)
  /\ UNCHANGED <<geoN, geoX, geoY, vecOut, progVars, evVars, glVars>>

\* vec = make_vector(x, y)
GeoVector ==
  /\ vecOut = <<>>
  /\ vecOut' = make_vector(geoX, geoY)
  /\ UNCHANGED <<geoN, geoX, geoY, gridOut, progVars, evVars, glVars>>

SpecGeo == GeoInit /\ [][GeoGrid \/ GeoVector]_vars

\* ------------------------------------------------------------ fairness
\* The render thread keeps being scheduled: it stays at no position of its
\* loop forever.  At each of these positions its step is enabled whatever
\* the control task does, so this is weak fairness of every step of the loop.
LoopPcs == {"loop_test", "poll", "read_paused", "idle", "sample_now",
            "read_t0", "eval_a", "eval_b", "eval_c", "eval_d", "build",
            "clear", "upload", "grid", "arrow", "swap", "terminate"}
FairSpec == Spec /\ \A p \in LoopPcs : []<>(rpc # p)

\* ========================================================== the claims
\* Positions of the render task.
EvalPcs == {"eval_a", "eval_b", "eval_c", "eval_d"}
\* The steps that evaluate, clear, draw or present.
WorkPcs == EvalPcs \cup {"clear", "grid", "arrow", "swap"}
\* An iteration, from the event poll to the idle wait or the present.
IterPcs == {"poll", "read_paused", "idle", "sample_now", "read_t0", "build",
            "upload"} \cup WorkPcs
\* Between two iterations' work: the loop test, the poll, the test of paused
\* and the idle wait.
BoundaryPcs == {"loop_test", "poll", "read_paused", "idle"}
\* Positions at which the locals of the iteration hold this frame's values.
FramePcs == {"clear", "upload", "grid", "arrow", "swap"}

\* C1 as stated: in every step taken while paused is and stays true, the
\* render task neither evaluates, clears, draws nor presents, and the frame
\* on screen stays.
C1_PausedNoWork ==
  [][(paused /\ paused') =>
       /\ ~(rpc \in WorkPcs /\ rpc' # rpc)
       /\ front' = front /\ back' = back]_vars

\* C1 as amended: an iteration that reads paused = true goes to the idle wait
\* and back to the loop test, so once the render task is between iterations
\* with paused true and staying true it evaluates, clears, draws and presents
\* nothing and the frame on screen stays; only the iteration that had read
\* paused = false before the write still runs to its present.
C1_PausedFromNextIteration ==
  [][(paused /\ paused') =>
       /\ rpc \in BoundaryPcs =>
            /\ rpc' \in BoundaryPcs \cup {"terminate"}
            /\ front' = front /\ back' = back /\ uTransform' = uTransform
            /\ ent' = ent /\ t' = t
       /\ rpc = "swap" => rpc' \in {"swap", "loop_test"}]_vars

\* C1 witness: the render task idles on paused = true with a frame on
\* screen, the clock having run to its end.
C1_Witness ==
  paused /\ rpc = "idle" /\ front.grid # NotDrawn /\ now = MaxTime

\* What C2 calls a failure: eval raises, or its result is no number.
FailsAsStated(e, tt) ==
  LET v == PyEval(e, tt, t0) IN IsExc(v) \/ v.ty # "num"
\* A failure of the code: eval or float raises.
Raises(e, tt) == IsExc(PyFloat(PyEval(e, tt, t0)))

BareNames(e) ==
  {e[i] : i \in {j \in DOMAIN e : e[j] \in NameToks /\ (j = 1 \/ e[j - 1] # ".")}}
BareCosT == <<"cos", "(", "t", ")">>

IsFrameMatrix(m, e) ==
  /\ DOMAIN m = 1..4 /\ \A i \in 1..4 : DOMAIN m[i] = 1..4
  /\ m[1][1] = e["a"] /\ m[1][2] = e["b"]
  /\ m[2][1] = e["c"] /\ m[2][2] = e["d"]
  /\ \A i, j \in 1..4 :
       (i > 2 \/ j > 2) => m[i][j] = (IF i = j THEN 1 ELSE 0)

C5_TransformApplication ==
  glPc = "drawn" =>
    glPos = <<glIn.a * glIn.x + glIn.b * glIn.y,
              glIn.c * glIn.x + glIn.d * glIn.y, 0, 1>>

\* What the pipeline computes: the transpose of the block is applied.
C5_TransposeApplied ==
  glPc = "drawn" =>
    glPos = <<glIn.a * glIn.x + glIn.c * glIn.y,
              glIn.b * glIn.x + glIn.d * glIn.y, 0, 1>>

\* C6: the elapsed time a frame uses is never negative.
C6_ElapsedNonNegative ==
  rpc \in EvalPcs \cup {"build"} \cup FramePcs => t >= 0

\* C7: the render task creates its window and reads the shared fields only
\* after the fields exist with their defaults and the control task is in its
\* event loop.
C7_StartupOrdering ==
  rpc \notin {"unstarted", "sleep", "glfw_init", "create_window"} =>
    /\ cpc \in {"mainloop", "reset_store"}
    /\ \A k \in EntrySet : expr[k] # <<>>

\* The part of C7 the code does order: the thread is started after the
\* fields exist.
C7_FieldsExistAtStart ==
  rpc # "unstarted" => \A k \in EntrySet : expr[k] # <<>> /\ scale[k] # 0

\* C8: the loop is left only at its test, with the close flag set; an
\* iteration that began runs to its idle wait or its present; terminate() is
\* called only after the loop was left, and nothing is polled, evaluated,
\* drawn or presented after it.
C8_CooperativeShutdown ==
  [][/\ (rpc' = "terminate" /\ rpc # "terminate") =>
          (rpc = "loop_test" /\ shouldClose)
     /\ rpc \in IterPcs => rpc' \in IterPcs \cup {"loop_test"}
     /\ (rpc \in IterPcs /\ rpc' = "loop_test") => rpc \in {"idle", "swap"}
     /\ (glfwInited /\ ~glfwInited') => rpc = "terminate"
     /\ rpc = "Terminated" =>
          UNCHANGED <<rpc, locVars, gfxVars, closeEvent, shouldClose>>]_vars

\* C8 witness: the loop was left after a frame was presented, and terminate()
\* has run.
C8_Witness ==
  rpc = "Terminated" /\ ~glfwInited /\ shouldClose /\ front.arrow # NotDrawn

\* C9, its last part: when the render task has ended, the window and the
\* window system have been released.
RenderEnded == rpc \in {"Terminated", "dead"}
C9_EndedReleased ==
  RenderEnded => (~glfwInited /\ win # "window")

\* C9, its first part: a set close flag leads to the end of the loop and to
\* terminate(), whatever the panel does with paused.
C9_ShutdownLiveness ==
  (shouldClose /\ rpc \in BoundaryPcs \cup IterPcs) ~> (rpc = "Terminated")

\* C10: after a failed setup step the failure is printed, the render loop is
\* not entered, and the process is gone: the control task takes no step.
C10_FatalSetup ==
  [][/\ rpc \in {"raised", "dead"} => rpc' \in {"raised", "dead"}
     /\ rpc = "dead" => (reported /\ UNCHANGED ctlVars)]_vars

\* The parts of C10 that hold: the failure is printed and the loop is never
\* entered.
C10_LoopNotEntered ==
  [][/\ rpc \in {"raised", "dead"} => rpc' \in {"raised", "dead"}
     /\ rpc = "dead" => reported]_vars

\* The fields of the shared dict.
SharedFields == <<expr, scale, paused, show_grid, show_arrow, t0>>
\* A step of the render task.
RenderStep == rpc' # rpc /\ rpc # "unstarted"

\* C11: no step of the render task changes a field of the shared dict: the
\* four expressions, the four scales, paused, show_grid, show_arrow and t0.
C11_SingleWriter ==
  [][RenderStep => UNCHANGED SharedFields]_vars

\* What holds of C11: the render task changes no field but t0, and t0 only
\* by evaluating an expression that stores into it.
C11_WritesOnlyByEvaluation ==
  [][RenderStep =>
       /\ UNCHANGED <<expr, scale, paused, show_grid, show_arrow>>
       /\ t0' # t0 =>
            \E k \in EntrySet : rpc = EvalPc(k) /\ expr[k] = StoreT0]_vars

\* C12: every read of a shared field takes the value the field has when the
\* iteration reads it, with no copy kept from an earlier iteration: paused
\* decides between the idle wait and a frame, t is taken from t0, entry k
\* from the expression and the scale of k, and the grid and the arrow are
\* drawn exactly if show_grid and show_arrow are set.  So a write completed
\* before the iteration began, and not overwritten since, is what it uses.
C12_WriteVisibility ==
  [][/\ (rpc = "read_paused" /\ rpc' # rpc) =>
          rpc' = (IF paused THEN "idle" ELSE "sample_now")
     /\ (rpc = "read_t0" /\ rpc' # rpc) => t' = nowR - t0
     /\ \A k \in EntrySet :
          (rpc = EvalPc(k) /\ rpc' # rpc) =>
            ent'[k] = safe_eval(expr[k], t, t0) * scale[k]
     /\ (rpc = "grid" /\ rpc' # rpc) => (back'.grid # NotDrawn) = show_grid
     /\ (rpc = "arrow" /\ rpc' # rpc) => (back'.arrow # NotDrawn) = show_arrow]_vars

\* C12 witness: after a frame with the grid, show_grid was cleared and the
\* frame about to be presented has the arrow and no grid.
C12_Witness ==
  /\ rpc = "swap" /\ ~show_grid /\ front.grid # NotDrawn
  /\ back.grid = NotDrawn /\ back.arrow # NotDrawn

\* Segment j of a list of vertices x1, y1, x2, y2, ...
Segment(list, j) == SubSeq(list, 4 * j - 3, 4 * j)
SegmentCount(list) == Len(list) \div 4
Occurrences(list, seg) ==
  Cardinality({j \in 1..SegmentCount(list) : Segment(list, j) = seg})

C14_VectorGeometryAsStated ==
  vecOut # <<>> =>
    /\ Len(vecOut) = 12
    /\ Segment(vecOut, 1) = <<0, 0, geoX, geoY>>
    /\ SubSeq(vecOut, 5, 6) = <<geoX, geoY>>
    /\ SubSeq(vecOut, 9, 10) = <<geoX, geoY>>
    /\ 2 * ArrowVertexCount = Len(vecOut)

\* C14 as amended: make_vector(x, y) has 3 segments of float32 numbers; the
\* first runs from (0,0) to (x,y) rounded to float32, which is (x,y) itself
\* when x and y are float32 numbers, as 3 and 1 are; the second and third
\* start at that same tip; the render loop draws the 6 vertices of
\* make_vector(3, 1).
C14_VectorGeometry ==
  vecOut # <<>> =>
    /\ Len(vecOut) = 12
    /\ Segment(vecOut, 1) = <<0, 0, Float32(geoX), Float32(geoY)>>
    /\ SubSeq(vecOut, 5, 6) = SubSeq(vecOut, 3, 4)
    /\ SubSeq(vecOut, 9, 10) = SubSeq(vecOut, 3, 4)
    /\ (Abs(geoX) <= TwoTo24 /\ Abs(geoY) <= TwoTo24) =>
         SubSeq(vecOut, 3, 4) = <<geoX, geoY>>
    /\ (geoX = VecX /\ geoY = VecY) =>
         /\ Segment(vecOut, 1) = <<0, 0, 3, 1>>
         /\ SubSeq(vecOut, 5, 6) = <<3, 1>> /\ SubSeq(vecOut, 9, 10) = <<3, 1>>
    /\ 2 * ArrowVertexCount = Len(make_vector(VecX, VecY))

\* C14 witness: the vector to (2^24 + 1, 1), whose tip is at (2^24, 1).
C14_Witness ==
  /\ vecOut # <<>> /\ geoX = TwoTo24 + 1 /\ geoY = VecY
  /\ SubSeq(vecOut, 5, 6) = <<TwoTo24, 1>>

\* C15: evaluating an expression does nothing but produce its result: it
\* leaves shared["t0"] as it was, and the result is the one the expression
\* and t determine, whatever is in the shared dict.
C15_EvaluatorConfinement ==
  evPc = "out" =>
    /\ evT0Out = evT0
    /\ \A o \in EvOrigins : evOut = safe_eval(evExpr, evT, o)

\* What holds of C15: an expression that does not go through the attribute
\* __loader__ of the math module stores nothing and reads nothing of the
\* shared dict.
C15_ConfinedWithoutLoader ==
  (evPc = "out" /\ \A j \in DOMAIN evExpr : evExpr[j] # "__loader__") =>
    /\ evT0Out = evT0
    /\ \A o \in EvOrigins : evOut = safe_eval(evExpr, evT, o)

\* The steps of a frame in the order of the code, and the position after
\* each.
FrameSteps == <<"sample_now", "read_t0", "eval_a", "eval_b", "eval_c", "eval_d",
                "build", "clear", "upload", "grid", "arrow", "swap", "loop_test">>
StepAfter(pc) ==
  FrameSteps[1 + CHOOSE j \in 1..(Len(FrameSteps) - 1) : FrameSteps[j] = pc]
InFrame(pc) == \E j \in 1..(Len(FrameSteps) - 1) : FrameSteps[j] = pc
Drawn(frame) == {g \in {"grid", "arrow"} : frame[g] # NotDrawn}

\* C16: an iteration that is not paused takes its steps in the order of
\* FrameSteps, each once: the time, the four entries, the matrix, the clear,
\* the upload, the grid if show_grid is set, the arrow if show_arrow is set,
\* the present.  The frame being drawn changes only by the clear and the two
\* draws, the uniform only by the upload, the frame on screen only by the
\* present, which shows what was drawn; what is drawn of one frame is drawn
\* under one transform, that of the matrix of this iteration.
C16_FrameStepOrdering ==
  [][/\ (InFrame(rpc) /\ rpc' # rpc) => rpc' = StepAfter(rpc)
     /\ (rpc' = "sample_now" /\ rpc # rpc') => (rpc = "read_paused" /\ ~paused)
     /\ back' # back => rpc \in {"clear", "grid", "arrow"}
     /\ (rpc = "clear" /\ rpc' # rpc) => back' = EmptyFrame
     /\ (rpc = "grid" /\ rpc' # rpc) =>
          Drawn(back') = Drawn(back) \cup (IF show_grid THEN {"grid"} ELSE {})
     /\ (rpc = "arrow" /\ rpc' # rpc) =>
          Drawn(back') = Drawn(back) \cup (IF show_arrow THEN {"arrow"} ELSE {})
     /\ uTransform' # uTransform =>
          (rpc = "upload" /\ uTransform' = UniformMatrix4fv(GL_FALSE, M))
     /\ front' # front => (rpc = "swap" /\ front' = back)
     /\ (rpc = "swap" /\ rpc' # rpc) => front' = back
     /\ \A g \in Drawn(back') : back'[g].u = uTransform']_vars

\* C16 witness: a frame with the grid and the arrow has been presented, both
\* drawn under the transform uploaded for it.
C16_Witness ==
  /\ rpc = "loop_test" /\ Drawn(front) = {"grid", "arrow"}
  /\ front.grid.u = uTransform /\ front.arrow.u = uTransform
  /\ front.arrow.count = ArrowVertexCount

\* Positions at which the iteration holds its time sample t.
SampledPcs == EvalPcs \cup {"build"} \cup FramePcs

\* C17: t is assigned once in an iteration, from the clock and t0 read then;
\* each of the four entries is evaluated with this t; a reset of t0 by the
\* control task while the iteration holds its t changes neither t nor what
\* the iteration has computed and drawn.
C17_OneTimeSample ==
  [][/\ (rpc \in SampledPcs /\ rpc' \in SampledPcs) => t' = t
     /\ (rpc = "read_t0" /\ rpc' # rpc) => (t' = nowR - t0 /\ rpc' = "eval_a")
     /\ \A k \in EntrySet :
          (rpc = EvalPc(k) /\ rpc' # rpc) =>
            (ent'[k] = safe_eval(expr[k], t, t0) * scale[k] /\ t' = t)
     /\ (cpc = "reset_store" /\ cpc' # cpc) =>
          UNCHANGED <<rpc, locVars, gfxVars>>]_vars

\* C17 witness: all four entries were evaluated at t = 0 although t0 was
\* reset to 1 after the time sample of this iteration.
C17_Witness ==
  /\ rpc = "build" /\ expr = DefaultExpr /\ scale = DefaultScale
  /\ nowR = 0 /\ t = 0 /\ t0 = 1
  /\ ent = [k \in EntrySet |-> IF k \in {"a", "d"} THEN 1 ELSE 0]

\* C18: an iteration that finds paused set goes through the idle wait back
\* to the loop test and changes neither t0 nor another shared field, nor a
\* local or a frame; the clock runs on meanwhile, and the frame that follows
\* a paused iteration takes the clock as it is then and t = that - t0, the
\* time spent paused included.
C18_PauseKeepsClock ==
  [][/\ (rpc = "read_paused" /\ paused /\ rpc' # rpc) =>
          (rpc' = "idle" /\ UNCHANGED <<SharedFields, locVars, gfxVars>>)
     /\ (rpc = "idle" /\ rpc' # rpc) =>
          (rpc' = "loop_test" /\ UNCHANGED <<SharedFields, nowR, t, ent, M, gfxVars>>)
     /\ (paused /\ now' # now) => (now' = now + 1 /\ UNCHANGED <<SharedFields, rpc>>)
     /\ (idled /\ rpc = "sample_now" /\ rpc' # rpc) => nowR' = now
     /\ (idled /\ rpc = "read_t0" /\ rpc' # rpc) => t' = nowR - t0]_vars

\* C18 witness: the frame on screen was drawn at t = 0 with the default
\* expressions; a paused iteration followed, the clock went on, and the
\* frame after it is evaluated at t = 1 with b = sin(1), t0 being what it was.
C18_Witness ==
  /\ idled /\ ~paused /\ rpc = "build"
  /\ expr = DefaultExpr /\ scale = DefaultScale
  /\ front.grid.u = UniformMatrix4fv(GL_FALSE, BuildMatrix(1, 0, 0, 1))
  /\ t0 = 0 /\ nowR = 1 /\ t = 1 /\ ent["b"] = 1

====
